---- MODULE Spec2Model ----
(***************************************************************************)
(* The topology graph of the admin console (TopologyGraph in               *)
(* src/pages/ThemeEditor.tsx): the resolver that derives nodes and edges   *)
(* from the store's exchanges, queues and bindings, and the view state     *)
(* (zoom, pan, selection, labels, filter) with its handlers.               *)
(*                                                                         *)
(* After it, the other parts of the console, each with the variables of    *)
(* its own state and a specification of its own: the file system service   *)
(* the notification toasts, the queue manager, the theme history, the file *)
(* tree, the editor tabs and the terminal.                                 *)
(* A specification holds the parts it does not run at their idle state.    *)
(***************************************************************************)
EXTENDS Integers, Sequences, FiniteSets, TLC

VARIABLES
    exchanges,      \* store: Exchange[]
    queues,         \* store: Queue[]
    bindings,       \* store: Binding[]
    nodes,          \* useMemo result: nodeList
    edges,          \* useMemo result: edgeList
    zoom,           \* useState(1), an IEEE double, see DAdd
    pan,            \* useState({x: 0, y: 0})
    selectedNode,   \* useState<string | null>(null)
    showLabels,     \* useState(true)
    filterType,     \* useState('all')
    isDragging,     \* useState(false)
    dragStart,      \* useState({x: 0, y: 0})
    dragOrigin,     \* history: the pointer and the pan at the last mouse down
    \* fileSystemService.ts
    localStorage,   \* window.localStorage, item by key
    fsCall,         \* the service call settled last and how it settled
    fsWritten,      \* history: the content last given to writeFile, by path
    fetchAnswered,  \* history: some fetch got an answer from the backend
    \* NotificationsContainer and its NotificationToast children
    notifications,  \* prop: Notification[]
    toastTimers,    \* the setTimeout of each mounted toast
    dismissCalls,   \* history: ids onDismiss was called with by a timer
    \* the queue manager
    jobs,           \* QueueJob[]
    isAutoRefresh,
    jobsAdded,      \* the jobs added so far (stands for Date.now() in the ids)
    \* the theme editor's theme and its undo history
    theme,
    history,        \* ThemeConfig[]
    historyIndex,   \* index into history, counted from 0
    \* the FileTree component
    rootPath,       \* prop
    fileTree,
    loading,
    pendingLoads,   \* the listDirectory calls awaited by loadFileTree
    loadsStarted,   \* how many times the effect has run
    \* the EditorTabs component
    files,          \* prop: OpenFile[]
    draggedTab,
    dragOverTab,
    lastReorder,    \* history: the last call of onReorderFiles
    reorderCount,   \* history: the calls of onReorderFiles
    \* the Terminal component
    sessions,
    activeSession,
    sessionsAdded   \* the sessions added so far (stands for Date.now())

storeVars == <<exchanges, queues, bindings>>
graphVars == <<nodes, edges>>
viewVars  == <<zoom, pan, selectedNode, showLabels, filterType, isDragging, dragStart>>
histVars  == <<dragOrigin>>
topoVars  == <<storeVars, graphVars, viewVars, histVars>>
fsVars    == <<localStorage, fsCall, fsWritten, fetchAnswered>>
toastVars == <<notifications, toastTimers, dismissCalls>>
jobVars   == <<jobs, isAutoRefresh, jobsAdded>>
themeVars == <<theme, history, historyIndex>>
treeVars  == <<rootPath, fileTree, loading, pendingLoads, loadsStarted>>
tabVars   == <<files, draggedTab, dragOverTab, lastReorder, reorderCount>>
termVars  == <<sessions, activeSession, sessionsAdded>>
vars      == <<topoVars, fsVars, toastVars, jobVars, themeVars, treeVars, tabVars,
               termVars>>

\* what the steps of one part leave alone
nonTopoVars  == <<fsVars, toastVars, jobVars, themeVars, treeVars,
                 tabVars, termVars>>
nonFsVars    == <<topoVars, toastVars, jobVars, themeVars, treeVars,
                 tabVars, termVars>>
nonToastVars == <<topoVars, fsVars, jobVars, themeVars, treeVars,
                 tabVars, termVars>>
nonJobVars   == <<topoVars, fsVars, toastVars, themeVars, treeVars,
                 tabVars, termVars>>
nonThemeVars == <<topoVars, fsVars, toastVars, jobVars, treeVars,
                 tabVars, termVars>>
nonTreeVars  == <<topoVars, fsVars, toastVars, jobVars, themeVars,
                 tabVars, termVars>>
nonTabVars   == <<topoVars, fsVars, toastVars, jobVars, themeVars, treeVars,
                 termVars>>
nonTermVars  == <<topoVars, fsVars, toastVars, jobVars, themeVars, treeVars,
                 tabVars>>

(***************************************************************************)
(* Bounds of the model.                                                    *)
(***************************************************************************)
MaxBindings  == 2     \* bindings in the store
MaxShownBindings == 1 \* bindings in the store of the render specification
MaxNotifications == 4 \* notifications in the list handed to the toast container
Quantum      == 2500  \* milliseconds that one step of the clock takes
MaxSampleJobs == 4    \* sample jobs the queue manager starts with
MaxAddedJobs == 1     \* jobs added through the Add Job form
MaxHistory   == 3     \* themes kept in the undo history
MaxLoads     == 4     \* runs of the effect that loads the file tree
MaxReorders  == 2     \* calls of onReorderFiles that are counted
MaxSessions  == 4     \* terminal sessions added
MaxPointer   == 1     \* the pointer is at (i, MaxPointer - i), i in 0..MaxPointer
MaxPan       == 1     \* drags that would take |pan.x| or |pan.y| past this are not taken

(***************************************************************************)
(* Strings of the store's entities.  Ids, names and the endpoints a        *)
(* binding states share one universe, so that an id may equal another      *)
(* entity's name and an exchange and a queue may be called the same.       *)
(***************************************************************************)
Strs        == {"a", "b"}
RoutingKeys == {"", "k"}
Null        == "<null>"
FilterTypes == {"all", "exchange", "queue"}

(***************************************************************************)
(* IEEE-754 binary64 values between 0.25 and 4, held exactly as an integer *)
(* count of 2^-54 split into two limbs <<hi, lo>> = hi * 2^27 + lo.        *)
(***************************************************************************)
LimbBase == 2^27

DHalf  == <<2^26, 0>>                    \* 0.5
DOne   == <<2^27, 0>>                    \* 1
DTwo   == <<2^28, 0>>                    \* 2
DFifth == <<26843545, 80530637>>         \* the double nearest 0.2

DLess(a, b) == a[1] < b[1] \/ (a[1] = b[1] /\ a[2] < b[2])
DMin(a, b)  == IF DLess(b, a) THEN b ELSE a
DMax(a, b)  == IF DLess(a, b) THEN b ELSE a

\* units in the last place of the binade the exact value <<hi, lo>> falls in
Ulp(hi) == IF hi >= 2^28 THEN 8 ELSE IF hi >= 2^27 THEN 4 ELSE IF hi >= 2^26 THEN 2 ELSE 1

\* round to nearest, ties to even
DRound(hi, lo) ==
    LET q    == Ulp(hi)
        r    == lo % q
        down == lo - r
        even == (down \div q) % 2 = 0
        up   == 2 * r > q \/ (2 * r = q /\ ~even)
        l    == IF up THEN down + q ELSE down
    IN  IF l >= LimbBase THEN <<hi + 1, l - LimbBase>> ELSE <<hi, l>>

DAdd(a, b) ==
    LET l == a[2] + b[2]
    IN  IF l >= LimbBase THEN DRound(a[1] + b[1] + 1, l - LimbBase)
                         ELSE DRound(a[1] + b[1], l)

\* a - b for a > b
DSub(a, b) ==
    LET l == a[2] - b[2]
    IN  IF l < 0 THEN DRound(a[1] - b[1] - 1, l + LimbBase)
                 ELSE DRound(a[1] - b[1], l)

(***************************************************************************)
(* Topology resolver: the useMemo body.                                    *)
(***************************************************************************)
\* faulty variant of ExchangeNodes: the row index counted from 1
ExchangeNodesOneBased(exs, ft) ==
    IF ft = "queue" THEN <<>>
    ELSE [i \in 1..Len(exs) |->
            [id |-> exs[i].id, type |-> "exchange", name |-> exs[i].name,
             x |-> 200, y |-> 120 + i * 140, data |-> exs[i]]]

ExchangeNodes(exs, ft) ==
    IF ft = "queue" THEN <<>>
    ELSE [i \in 1..Len(exs) |->
            [id |-> exs[i].id, type |-> "exchange", name |-> exs[i].name,
             x |-> 200, y |-> 120 + (i - 1) * 140, data |-> exs[i]]]

QueueNodes(qs, ft) ==
    IF ft = "exchange" THEN <<>>
    ELSE [j \in 1..Len(qs) |->
            [id |-> qs[j].id, type |-> "queue", name |-> qs[j].name,
             x |-> 650, y |-> 100 + (j - 1) * 110, data |-> qs[j]]]

BuildNodes(exs, qs, ft) == ExchangeNodes(exs, ft) \o QueueNodes(qs, ft)

SourceMatch(n, b) ==
    \/ n.id = b.source
    \/ n.name = b.source
    \/ (n.type = "exchange" /\ n.data.name = b.source)

TargetMatch(n, b) ==
    \/ n.id = b.destination
    \/ n.name = b.destination
    \/ (n.type = "queue" /\ n.data.name = b.destination)

\* Array.prototype.find as an index: the first matching position, 0 for undefined
\* faulty variant of FindSource: a node matching by id is looked for first, and
\* one matching by name only when no id matches
FindSourceIdFirst(nodeList, b) ==
    LET I == {i \in 1..Len(nodeList) : nodeList[i].id = b.source}
        S == {i \in 1..Len(nodeList) : SourceMatch(nodeList[i], b)}
    IN  IF I # {} THEN CHOOSE i \in I : \A j \in I : i <= j
        ELSE IF S = {} THEN 0 ELSE CHOOSE i \in S : \A j \in S : i <= j

FindSource(nodeList, b) ==
    LET S == {i \in 1..Len(nodeList) : SourceMatch(nodeList[i], b)}
    IN  IF S = {} THEN 0 ELSE CHOOSE i \in S : \A j \in S : i <= j

FindTarget(nodeList, b) ==
    LET S == {i \in 1..Len(nodeList) : TargetMatch(nodeList[i], b)}
    IN  IF S = {} THEN 0 ELSE CHOOSE i \in S : \A j \in S : i <= j

\* faulty variant of BuildEdges: the edge carries the source node's name, not its id
RECURSIVE BuildEdgesByName(_, _)
BuildEdgesByName(nodeList, bs) ==
    IF bs = <<>> THEN <<>>
    ELSE LET b == bs[Len(bs)]
             s == FindSource(nodeList, b)
             t == FindTarget(nodeList, b)
             rest == BuildEdgesByName(nodeList, SubSeq(bs, 1, Len(bs) - 1))
         IN  IF s # 0 /\ t # 0
             THEN Append(rest, [id |-> b.id, source |-> nodeList[s].name,
                                target |-> nodeList[t].id, routingKey |-> b.routingKey])
             ELSE rest

\* faulty variant of BuildEdges: an unresolved endpoint keeps the binding's own string
RECURSIVE BuildEdgesPartial(_, _)
BuildEdgesPartial(nodeList, bs) ==
    IF bs = <<>> THEN <<>>
    ELSE LET b == bs[Len(bs)]
             s == FindSource(nodeList, b)
             t == FindTarget(nodeList, b)
             rest == BuildEdgesPartial(nodeList, SubSeq(bs, 1, Len(bs) - 1))
         IN  Append(rest, [id |-> b.id,
                           source |-> IF s # 0 THEN nodeList[s].id ELSE b.source,
                           target |-> IF t # 0 THEN nodeList[t].id ELSE b.destination,
                           routingKey |-> b.routingKey])

\* faulty variant of BuildEdges: edges are put at the front of the list (unshift)
RECURSIVE BuildEdgesUnshift(_, _)
BuildEdgesUnshift(nodeList, bs) ==
    IF bs = <<>> THEN <<>>
    ELSE LET b == bs[Len(bs)]
             s == FindSource(nodeList, b)
             t == FindTarget(nodeList, b)
             rest == BuildEdgesUnshift(nodeList, SubSeq(bs, 1, Len(bs) - 1))
         IN  IF s # 0 /\ t # 0
             THEN <<[id |-> b.id, source |-> nodeList[s].id,
                     target |-> nodeList[t].id, routingKey |-> b.routingKey]>> \o rest
             ELSE rest

RECURSIVE BuildEdges(_, _)
BuildEdges(nodeList, bs) ==
    IF bs = <<>> THEN <<>>
    ELSE LET b == bs[Len(bs)]
             s == FindSource(nodeList, b)
             t == FindTarget(nodeList, b)
             rest == BuildEdges(nodeList, SubSeq(bs, 1, Len(bs) - 1))
         IN  IF s # 0 /\ t # 0
             THEN Append(rest, [id |-> b.id, source |-> nodeList[s].id,
                                target |-> nodeList[t].id, routingKey |-> b.routingKey])
             ELSE rest

\* faulty variant of Resolve: the pass reads the view state and blanks the
\* routing keys while labels are hidden
ResolveReadsLabels(exs, qs, bs, ft) ==
    LET nodeList == BuildNodes(exs, qs, ft)
        edgeList == BuildEdges(nodeList, bs)
    IN  [nodes |-> nodeList,
         edges |-> [k \in 1..Len(edgeList) |->
                      [edgeList[k] EXCEPT !.routingKey = IF showLabels THEN @ ELSE ""]]]

Resolve(exs, qs, bs, ft) ==
    LET nodeList == BuildNodes(exs, qs, ft)
    IN  [nodes |-> nodeList, edges |-> BuildEdges(nodeList, bs)]

(***************************************************************************)
(* Inputs the store may hold.                                              *)
(***************************************************************************)
SeqsUpTo(S, n) == UNION {[1..k -> S] : k \in 0..n}
UniqueIds(s)   == \A i, j \in 1..Len(s) : i # j => s[i].id # s[j].id

Entity       == [id : Strs, name : Strs]
\* a queue also carries the health score its node is coloured by; the resolver
\* does not read it
QueueEntity  == [id : Strs, name : Strs, healthScore : {90}]
BindingRule  == [source : Strs, destination : Strs, routingKey : RoutingKeys]
BindingId(i) == "b" \o ToString(i)

\* ids are unique within a collection, which caps its length at the number of ids
ExchangeInputs == {s \in SeqsUpTo(Entity, Cardinality(Strs)) : UniqueIds(s)}
QueueInputs    == {s \in SeqsUpTo(QueueEntity, Cardinality(Strs)) : UniqueIds(s)}
\* the binding at position i carries the id b<i>
BindingInputs  == {[i \in 1..Len(s) |->
                      [id |-> BindingId(i), source |-> s[i].source,
                       destination |-> s[i].destination, routingKey |-> s[i].routingKey]] :
                   s \in SeqsUpTo(BindingRule, MaxBindings)}

\* the broker of the two example scenarios: one exchange, one queue, and either a
\* binding by name that resolves or a binding whose source names nothing
ScenarioExchanges == <<[id |-> "e1", name |-> "orders"]>>
ScenarioQueues    == <<[id |-> "q1", name |-> "orders.q", healthScore |-> 90]>>
ScenarioBindings  ==
    { <<[id |-> "b1", source |-> "orders", destination |-> "orders.q",
         routingKey |-> "order.created"]>>,
      <<[id |-> "b2", source |-> "nonexistent", destination |-> "orders.q",
         routingKey |-> "x"]>> }

(***************************************************************************)
(* The idle state of the other parts of the console.                       *)
(***************************************************************************)
\* paths, as the strings the service is called with
FsPaths    == {"main.rs", "README"}
FsContents == {"", "x"}
\* localStorage.getItem of a key that was never set
NullItem   == "<null>"
StorageKey(path) == "rustpress_file_" \o path
StorageKeys == {StorageKey(path) : path \in FsPaths}
NoCall == [fn |-> "none"]

FsIdle ==
    /\ localStorage = [k \in StorageKeys |-> NullItem]
    /\ fsCall = NoCall
    /\ fsWritten = [path \in FsPaths |-> NullItem]
    /\ fetchAnswered = FALSE

\* no notification, no toast mounted
ToastIdle ==
    /\ notifications = <<>>
    /\ toastTimers = <<>>
    /\ dismissCalls = {}

\* the queue manager before its first effect
JobsIdle ==
    /\ jobs = <<>>
    /\ isAutoRefresh = TRUE
    /\ jobsAdded = 0

\* of a theme the model keeps the name, the pages (id and html) and the
\* assets (id and name), and of the default pages and assets the first
defaultTheme ==
    [name |-> "Default",
     pages |-> <<[id |-> "home", html |-> ""]>>,
     assets |-> <<[id |-> "logo-1", name |-> "logo.svg"]>>]

\* the theme editor as mounted
ThemeIdle ==
    /\ theme = defaultTheme
    /\ history = <<defaultTheme>>
    /\ historyIndex = 0

\* useState<FileNode[]>([])
EmptyTree == [from |-> "useState", tree |-> "[]"]

\* the file tree before its first effect
TreeIdle ==
    /\ rootPath = ""
    /\ fileTree = EmptyTree
    /\ loading = TRUE
    /\ pendingLoads = {}
    /\ loadsStarted = 0

NoReorder == [called |-> FALSE]

\* the editor tabs with no file open
TabsIdle ==
    /\ files = <<>>
    /\ draggedTab = NullItem
    /\ dragOverTab = NullItem
    /\ lastReorder = NoReorder
    /\ reorderCount = 0

\* the terminal as mounted
TermIdle ==
    /\ sessions = <<[id |-> "1"]>>
    /\ activeSession = "1"
    /\ sessionsAdded = 0

NonTopoIdle ==
    FsIdle /\ ToastIdle /\ JobsIdle /\ ThemeIdle /\ TreeIdle /\ TabsIdle /\ TermIdle

ViewDefaults ==
    /\ zoom = DOne
    /\ pan = [x |-> 0, y |-> 0]
    /\ selectedNode = Null
    /\ showLabels = TRUE
    /\ filterType = "all"
    /\ isDragging = FALSE
    /\ dragStart = [x |-> 0, y |-> 0]
    /\ dragOrigin = [pointer |-> [x |-> 0, y |-> 0], pan |-> [x |-> 0, y |-> 0]]

Rendered ==
    /\ nodes = Resolve(exchanges, queues, bindings, filterType).nodes
    /\ edges = Resolve(exchanges, queues, bindings, filterType).edges

\* the component mounted over a small broker
Init ==
    /\ exchanges = ScenarioExchanges
    /\ queues = ScenarioQueues
    /\ bindings \in ScenarioBindings
    /\ ViewDefaults
    /\ Rendered
    /\ NonTopoIdle

\* the component mounted over any store contents within the bounds
InitResolver ==
    /\ exchanges \in ExchangeInputs
    /\ queues \in QueueInputs
    /\ bindings \in BindingInputs
    /\ ViewDefaults
    /\ Rendered
    /\ NonTopoIdle

\* the component mounted over any store contents with few bindings
InitRender ==
    /\ exchanges \in ExchangeInputs
    /\ queues \in QueueInputs
    /\ bindings \in {b \in BindingInputs : Len(b) <= MaxShownBindings}
    /\ ViewDefaults
    /\ Rendered
    /\ NonTopoIdle

\* the small broker with its queue at any health score
InitHealth ==
    /\ exchanges = ScenarioExchanges
    /\ queues \in {<<[ScenarioQueues[1] EXCEPT !.healthScore = h]>> : h \in 0..100}
    /\ bindings \in ScenarioBindings
    /\ ViewDefaults
    /\ Rendered
    /\ NonTopoIdle

\* the topology graph not mounted
TopoIdle ==
    /\ exchanges = <<>>
    /\ queues = <<>>
    /\ bindings = <<>>
    /\ ViewDefaults
    /\ Rendered

(***************************************************************************)
(* Handlers.                                                               *)
(***************************************************************************)
\* faulty variant of ZoomInFn: a step that would pass 2 is refused instead of clamped
ZoomInNoOvershoot(z) == IF DLess(DTwo, DAdd(z, DFifth)) THEN z ELSE DAdd(z, DFifth)
\* faulty variant of ZoomOutFn: a step that would pass 0.5 is refused instead of clamped
ZoomOutNoUndershoot(z) == IF DLess(DSub(z, DFifth), DHalf) THEN z ELSE DSub(z, DFifth)
\* faulty variant of ZoomOutFn: the lower clamp is missing
ZoomOutUnclamped(z) == DSub(z, DFifth)

ZoomInFn(z)  == DMin(DAdd(z, DFifth), DTwo)
ZoomOutFn(z) == DMax(DSub(z, DFifth), DHalf)

handleZoomIn ==
    /\ zoom' = ZoomInFn(zoom)
    /\ UNCHANGED <<nonTopoVars, storeVars, histVars, graphVars, pan, selectedNode, showLabels, filterType,
                   isDragging, dragStart>>

handleZoomOut ==
    /\ zoom' = ZoomOutFn(zoom)
    /\ UNCHANGED <<nonTopoVars, storeVars, histVars, graphVars, pan, selectedNode, showLabels, filterType,
                   isDragging, dragStart>>

\* faulty variant of handleResetView: the pan offset is not reset
handleResetViewKeepsPan ==
    /\ zoom' = DOne
    /\ UNCHANGED <<nonTopoVars, storeVars, histVars, graphVars, pan, selectedNode, showLabels, filterType,
                   isDragging, dragStart>>

handleResetView ==
    /\ zoom' = DOne
    /\ pan' = [x |-> 0, y |-> 0]
    /\ UNCHANGED <<nonTopoVars, storeVars, histVars, graphVars, selectedNode, showLabels, filterType,
                   isDragging, dragStart>>

Pointers == {[x |-> i, y |-> MaxPointer - i] : i \in 0..MaxPointer}
InPanBounds(p) == p.x \in -MaxPan..MaxPan /\ p.y \in -MaxPan..MaxPan

\* faulty variant of handleMouseDownAt: the anchor is the pointer itself, the
\* current pan is not subtracted
handleMouseDownAnchorsPointer(e) ==
    /\ isDragging' = TRUE
    /\ dragStart' = [x |-> e.x, y |-> e.y]
    /\ dragOrigin' = [pointer |-> e, pan |-> pan]
    /\ UNCHANGED <<nonTopoVars, storeVars, graphVars, zoom, pan, selectedNode, showLabels, filterType>>

\* the mouse goes down at pointer position e
handleMouseDownAt(e) ==
    /\ isDragging' = TRUE
    /\ dragStart' = [x |-> e.x - pan.x, y |-> e.y - pan.y]
    /\ dragOrigin' = [pointer |-> e, pan |-> pan]
    /\ UNCHANGED <<nonTopoVars, storeVars, graphVars, zoom, pan, selectedNode, showLabels, filterType>>

handleMouseDown == \E e \in Pointers : handleMouseDownAt(e)

\* the pan a mouse move to pointer position e leaves
PanOnMove(dragging, anchor, p, e) ==
    IF dragging THEN [x |-> e.x - anchor.x, y |-> e.y - anchor.y] ELSE p

\* the mouse moves to pointer position e
handleMouseMoveAt(e) ==
    /\ isDragging => InPanBounds(PanOnMove(isDragging, dragStart, pan, e))
    /\ pan' = PanOnMove(isDragging, dragStart, pan, e)
    /\ UNCHANGED <<nonTopoVars, storeVars, histVars, graphVars, zoom, selectedNode, showLabels, filterType,
                   isDragging, dragStart>>

handleMouseMove == \E e \in Pointers : handleMouseMoveAt(e)

handleMouseUp ==
    /\ isDragging' = FALSE
    /\ UNCHANGED <<nonTopoVars, storeVars, histVars, graphVars, zoom, pan, selectedNode, showLabels, filterType,
                   dragStart>>

\* faulty variant of SelectToggle: a click always selects, it never clears
SelectAlways(sel, id) == id

\* what a click on the node with the given id leaves selected
SelectToggle(sel, id) == IF sel = id THEN Null ELSE id

\* onClick of a rendered exchange or queue node
selectNode ==
    \E i \in 1..Len(nodes) :
        /\ selectedNode' = SelectToggle(selectedNode, nodes[i].id)
        /\ UNCHANGED <<nonTopoVars, storeVars, histVars, graphVars, zoom, pan, showLabels, filterType,
                       isDragging, dragStart>>

toggleLabels ==
    /\ showLabels' = ~showLabels
    /\ UNCHANGED <<nonTopoVars, storeVars, histVars, graphVars, zoom, pan, selectedNode, filterType,
                   isDragging, dragStart>>

\* faulty variant of setFilterType: changing the filter also clears the selection
setFilterTypeClearsSelection ==
    \E ft \in FilterTypes :
        /\ filterType' = ft
        /\ nodes' = Resolve(exchanges, queues, bindings, ft).nodes
        /\ edges' = Resolve(exchanges, queues, bindings, ft).edges
        /\ selectedNode' = Null
        /\ UNCHANGED <<nonTopoVars, storeVars, histVars, zoom, pan, showLabels, isDragging, dragStart>>

\* onChange of the filter select, and the useMemo recomputation of the render it causes
setFilterType ==
    \E ft \in FilterTypes :
        /\ filterType' = ft
        /\ nodes' = Resolve(exchanges, queues, bindings, ft).nodes
        /\ edges' = Resolve(exchanges, queues, bindings, ft).edges
        /\ UNCHANGED <<nonTopoVars, storeVars, histVars, zoom, pan, selectedNode, showLabels, isDragging, dragStart>>

(***************************************************************************)
(* The render projection: what the component draws for the current state.  *)
(* Captions are recorded by kind, not by text.                             *)
(***************************************************************************)
\* faulty variant of HealthColor: the thresholds are compared strictly
HealthColorStrict(healthScore) ==
    IF healthScore > 80 THEN "stroke-green-500"
    ELSE IF healthScore > 50 THEN "stroke-yellow-500"
    ELSE "stroke-red-500"

HealthColor(healthScore) ==
    IF healthScore >= 80 THEN "stroke-green-500"
    ELSE IF healthScore >= 50 THEN "stroke-yellow-500"
    ELSE "stroke-red-500"

\* healthColor.replace('stroke-', 'fill-') over the three classes healthColor takes
StrokeToFill(className) ==
    CASE className = "stroke-green-500"  -> "fill-green-500"
      [] className = "stroke-yellow-500" -> "fill-yellow-500"
      [] className = "stroke-red-500"    -> "fill-red-500"
      [] OTHER -> className

\* the position of the first node of the list with the given id, (0, 0) if none
getNodePosition(nodeId) ==
    LET S == {i \in 1..Len(nodes) : nodes[i].id = nodeId}
    IN  IF S = {} THEN [x |-> 0, y |-> 0]
        ELSE LET node == nodes[CHOOSE i \in S : \A j \in S : i <= j]
             IN  [x |-> node.x, y |-> node.y]

\* n / 2 as a whole part and a flag for the extra half: exact, as the double is
Half(n) == [whole |-> n \div 2, half |-> n % 2 = 1]

\* the curve "M sx sy C midX sy, midX ty, tx ty" by its four points
EdgePath(edge) ==
    LET source == getNodePosition(edge.source)
        target == getNodePosition(edge.target)
        sourceX == source.x + 70
        targetX == target.x - 75
        midX == Half(sourceX + targetX)
    IN  [from |-> [x |-> sourceX, y |-> source.y],
         control1 |-> [x |-> midX, y |-> source.y],
         control2 |-> [x |-> midX, y |-> target.y],
         to |-> [x |-> targetX, y |-> target.y]]

\* faulty variant of renderEdge: only the edges leaving the selected node are
\* highlighted, the target is not compared
renderEdgeSourceOnly(edge) ==
    LET isSelected == selectedNode = edge.source
    IN  [key |-> edge.id,
         path |-> EdgePath(edge),
         glow |-> isSelected,
         strokeWidth |-> IF isSelected THEN 3 ELSE 2,
         strokeDasharray |-> IF isSelected THEN "" ELSE "5,5",
         captions |-> IF showLabels /\ edge.routingKey # "" THEN {"routingKey"} ELSE {}]

renderEdge(edge) ==
    LET isSelected == selectedNode = edge.source \/ selectedNode = edge.target
    IN  [key |-> edge.id,
         path |-> EdgePath(edge),
         glow |-> isSelected,
         strokeWidth |-> IF isSelected THEN 3 ELSE 2,
         strokeDasharray |-> IF isSelected THEN "" ELSE "5,5",
         captions |-> IF showLabels /\ edge.routingKey # "" THEN {"routingKey"} ELSE {}]

renderExchangeNode(node) ==
    [key |-> node.id,
     type |-> "exchange",
     isSelected |-> selectedNode = node.id,
     captions |-> IF showLabels THEN {"name", "exchangeType"} ELSE {}]

renderQueueNode(node) ==
    [key |-> node.id,
     type |-> "queue",
     isSelected |-> selectedNode = node.id,
     healthBar |-> StrokeToFill(HealthColor(node.data.healthScore)),
     captions |-> {"name", "messages", "consumers"}]

renderNode(node) ==
    IF node.type = "exchange" THEN renderExchangeNode(node) ELSE renderQueueNode(node)

RenderedNodes == [i \in 1..Len(nodes) |-> renderNode(nodes[i])]
RenderedEdges == [k \in 1..Len(edges) |-> renderEdge(edges[k])]

Next ==
    \/ handleZoomIn
    \/ handleZoomOut
    \/ handleResetView
    \/ handleMouseDown
    \/ handleMouseMove
    \/ handleMouseUp
    \/ selectNode
    \/ toggleLabels
    \/ setFilterType

Spec == Init /\ [][Next]_vars

NextResolver == setFilterType

SpecResolver == InitResolver /\ [][NextResolver]_vars

\* the handlers the drawing of nodes and edges depends on
NextRender ==
    \/ selectNode
    \/ toggleLabels
    \/ setFilterType

SpecRender == InitRender /\ [][NextRender]_vars

SpecHealth == InitHealth /\ [][NextRender]_vars

(***************************************************************************)
(* The file system service (services/fileSystemService.ts).  A call is one *)
(* step, taken when its fetch settles; the backend's answer is the         *)
(* environment's choice.  Of a FileContent the path, the content and the   *)
(* encoding are kept, of a listing where it comes from.                    *)
(***************************************************************************)
FsRoots == {"", "themes"}
\* fetch rejects, answers with !response.ok, or answers ok
FetchOutcomes == {"fails", "notOk", "ok"}
\* response.json() of an ok answer rejects
BadJson == [syntaxError |-> TRUE]

\* path.split('.') over the paths of the model
Split(path) ==
    CASE path = "main.rs" -> <<"main", "rs">>
      [] path = "README"  -> <<"README">>
ToLowerCase(str) ==
    CASE str = "README" -> "readme"
      [] OTHER -> str
\* path.split('.').pop()?.toLowerCase()
Ext(path) == ToLowerCase(Split(path)[Len(Split(path))])

\* a string in a condition: null and the empty string count as false
Truthy(item) == item # NullItem /\ item # ""

Placeholder(path) ==
    LET ext == Ext(path)
    IN  CASE ext = "rs" ->
               "// " \o path \o "\n// Rust source file\n\nfn main() {\n    println!(\"Hello, RustPress!\");\n}\n"
          [] ext = "toml" ->
               "# " \o path \o "\n# TOML configuration file\n\n[package]\nname = \"example\"\nversion = \"0.1.0\"\n"
          [] ext = "json" ->
               "{\n  \"name\": \"" \o path \o "\",\n  \"version\": \"1.0.0\"\n}\n"
          [] ext = "html" ->
               "<!DOCTYPE html>\n<html>\n<head>\n  <title>" \o path
                   \o "</title>\n</head>\n<body>\n  <!-- Content -->\n</body>\n</html>\n"
          [] ext = "css" -> "/* " \o path \o " */\n\nbody {\n  margin: 0;\n  padding: 0;\n}\n"
          [] ext \in {"js", "ts"} ->
               "// " \o path \o "\n\nconsole.log('Hello from " \o path \o "');\n"
          [] ext \in {"tsx", "jsx"} ->
               "// " \o path \o "\n\nimport React from 'react';\n\nexport default function Component() {\n  return <div>Hello</div>;\n}\n"
          [] ext = "sql" -> "-- " \o path \o "\n-- SQL file\n\nSELECT * FROM posts;\n"
          [] ext \in {"yml", "yaml"} ->
               "# " \o path \o "\n# YAML configuration\n\nversion: '3'\nservices: {}\n"
          [] OTHER -> "# " \o path \o "\n"

FileContent(path, content) == [path |-> path, content |-> content, encoding |-> "utf-8"]

getMockFileContent(path) ==
    LET stored == localStorage[StorageKey(path)]
    IN  IF Truthy(stored) THEN FileContent(path, stored)
        ELSE FileContent(path, Placeholder(path))

getMockFileTree(root) ==
    [from |-> "mock",
     tree |-> CASE root = "themes"    -> "getMockThemesTree"
                [] root = "functions" -> "getMockFunctionsTree"
                [] root = "plugins"   -> "getMockPluginsTree"
                [] root = "assets"    -> "getMockAssetsTree"
                [] root = "crates"    -> "getMockCratesTree"
                [] OTHER                  -> "getMockRootTree"]

\* what the backend may answer to files/list and files/read
ServerListings(path) == {[from |-> "server", tree |-> path], BadJson}
ServerFiles(path) == {FileContent(path, c) : c \in FsContents} \cup {BadJson}

Settled(fn, path, fetched, value) ==
    [fn |-> fn, path |-> path, fetch |-> fetched, settled |-> "resolved", value |-> value]

listDirectory ==
    \E path \in FsRoots, fetched \in FetchOutcomes : \E body \in ServerListings(path) :
        /\ fsCall' = Settled("listDirectory", path, fetched,
                              IF fetched = "ok" /\ body # BadJson THEN body
                              ELSE getMockFileTree(path))
        /\ fetchAnswered' = (fetchAnswered \/ fetched # "fails")
        /\ UNCHANGED <<nonFsVars, localStorage, fsWritten>>

readFile ==
    \E path \in FsPaths, fetched \in FetchOutcomes : \E body \in ServerFiles(path) :
        /\ fsCall' = Settled("readFile", path, fetched,
                              IF fetched = "ok" /\ body # BadJson THEN body
                              ELSE getMockFileContent(path))
        /\ fetchAnswered' = (fetchAnswered \/ fetched # "fails")
        /\ UNCHANGED <<nonFsVars, localStorage, fsWritten>>

writeFile ==
    \E path \in FsPaths, content \in FsContents, fetched \in FetchOutcomes :
        /\ localStorage' = IF fetched = "ok" THEN localStorage
                           ELSE [localStorage EXCEPT ![StorageKey(path)] = content]
        /\ fsCall' = Settled("writeFile", path, fetched, TRUE)
        /\ fsWritten' = [fsWritten EXCEPT ![path] = content]
        /\ fetchAnswered' = (fetchAnswered \/ fetched # "fails")
        /\ UNCHANGED nonFsVars

\* faulty variant of createFile: the failure is thrown on to the caller
createFileRethrows ==
    \E path \in FsPaths, type \in {"file", "folder"}, fetched \in FetchOutcomes :
        /\ fsCall' = IF fetched = "ok" THEN Settled("createFile", path, fetched, TRUE)
                     ELSE [fn |-> "createFile", path |-> path, fetch |-> fetched,
                           settled |-> "rejected", value |-> "Failed to create file"]
        /\ fetchAnswered' = (fetchAnswered \/ fetched # "fails")
        /\ UNCHANGED <<nonFsVars, localStorage, fsWritten>>

createFile ==
    \E path \in FsPaths, type \in {"file", "folder"}, fetched \in FetchOutcomes :
        /\ fsCall' = Settled("createFile", path, fetched, fetched = "ok")
        /\ fetchAnswered' = (fetchAnswered \/ fetched # "fails")
        /\ UNCHANGED <<nonFsVars, localStorage, fsWritten>>

deleteFile ==
    \E path \in FsPaths, fetched \in FetchOutcomes :
        /\ fsCall' = Settled("deleteFile", path, fetched, fetched = "ok")
        /\ fetchAnswered' = (fetchAnswered \/ fetched # "fails")
        /\ UNCHANGED <<nonFsVars, localStorage, fsWritten>>

renameFile ==
    \E oldPath \in FsPaths, newPath \in FsPaths, fetched \in FetchOutcomes :
        /\ fsCall' = Settled("renameFile", oldPath, fetched, fetched = "ok")
        /\ fetchAnswered' = (fetchAnswered \/ fetched # "fails")
        /\ UNCHANGED <<nonFsVars, localStorage, fsWritten>>

InitFiles ==
    /\ FsIdle
    /\ TopoIdle
    /\ ToastIdle
    /\ JobsIdle
    /\ ThemeIdle
    /\ TreeIdle
    /\ TabsIdle
    /\ TermIdle

NextFiles ==
    \/ listDirectory
    \/ readFile
    \/ writeFile
    \/ createFile
    \/ deleteFile
    \/ renameFile

SpecFiles == InitFiles /\ [][NextFiles]_vars

(***************************************************************************)
(* The notification toasts (NotificationsContainer and NotificationToast). *)
(* The list of notifications is a prop: the parent adds to it, removes     *)
(* from it and re-renders as it likes.  Each render of the container hands *)
(* every toast a new onDismiss closure, so the effect of every mounted     *)
(* toast is cleaned up and run again.  Time passes in steps of Quantum.    *)
(***************************************************************************)
ToastTimeout == 5000
NotificationIds == {"n" \o ToString(i) : i \in 1..MaxNotifications}
PersistentIds == {"n1"}
Notification(id) == [id |-> id, persistent |-> id \in PersistentIds]

\* notifications.slice(0, 3)
visibleNotifications(list) == SubSeq(list, 1, IF Len(list) < 3 THEN Len(list) ELSE 3)
ToastIdsOf(list) == {list[i].id : i \in 1..Len(list)}

NoTimer == [pending |-> FALSE]
Timer(ms) == [pending |-> TRUE, remaining |-> ms]

\* the effect of a toast: a timer unless the notification is persistent
ToastEffect(notification) ==
    IF ~notification.persistent THEN Timer(ToastTimeout) ELSE NoTimer

\* the timers after a render of the container over the given list: the toasts
\* no longer rendered are unmounted, and the effect of every other one runs
\* (again), its former timer cleared
RenderToasts(list) ==
    LET visible == visibleNotifications(list)
    IN  [id \in ToastIdsOf(visible) |->
            ToastEffect(visible[CHOOSE i \in 1..Len(visible) : visible[i].id = id])]

\* the parent puts a notification in front of the list or behind it
addNotification ==
    \E id \in NotificationIds \ ToastIdsOf(notifications), inFront \in BOOLEAN :
        /\ Len(notifications) < MaxNotifications
        /\ notifications' = IF inFront THEN <<Notification(id)>> \o notifications
                            ELSE Append(notifications, Notification(id))
        /\ toastTimers' = RenderToasts(notifications')
        /\ dismissCalls' = dismissCalls \ {id}
        /\ UNCHANGED nonToastVars

\* the parent takes a notification off the list
removeNotification ==
    \E i \in 1..Len(notifications) :
        /\ notifications' = SubSeq(notifications, 1, i - 1)
                                \o SubSeq(notifications, i + 1, Len(notifications))
        /\ toastTimers' = RenderToasts(notifications')
        /\ UNCHANGED <<nonToastVars, dismissCalls>>

\* the parent renders again with the same list
rerenderContainer ==
    /\ toastTimers' = RenderToasts(notifications)
    /\ UNCHANGED <<nonToastVars, notifications, dismissCalls>>

DueToasts == {id \in DOMAIN toastTimers : toastTimers[id] = Timer(0)}
PendingToasts == {id \in DOMAIN toastTimers : toastTimers[id].pending}

\* the clock advances; a timer that is due runs before it advances further
tick ==
    /\ PendingToasts # {}
    /\ DueToasts = {}
    /\ toastTimers' = [id \in DOMAIN toastTimers |->
                          IF toastTimers[id].pending
                          THEN Timer(IF toastTimers[id].remaining > Quantum
                                     THEN toastTimers[id].remaining - Quantum ELSE 0)
                          ELSE NoTimer]
    /\ UNCHANGED <<nonToastVars, notifications, dismissCalls>>

\* the timer of a toast runs onDismiss
timerFires(id) ==
    /\ id \in DueToasts
    /\ toastTimers' = [toastTimers EXCEPT ![id] = NoTimer]
    /\ dismissCalls' = dismissCalls \cup {id}
    /\ UNCHANGED <<nonToastVars, notifications>>

NextToasts ==
    \/ addNotification
    \/ removeNotification
    \/ rerenderContainer
    \/ tick
    \/ \E id \in NotificationIds : timerFires(id)

\* the clock does not stop and a due timer does run; the parent is free
FairToasts ==
    /\ WF_vars(tick)
    /\ \A id \in NotificationIds : WF_vars(timerFires(id))

InitToasts ==
    /\ ToastIdle
    /\ TopoIdle
    /\ FsIdle
    /\ JobsIdle
    /\ ThemeIdle
    /\ TreeIdle
    /\ TabsIdle
    /\ TermIdle

SpecToasts == InitToasts /\ [][NextToasts]_vars /\ FairToasts

(***************************************************************************)
(* The queue manager: a list of jobs, a timer that advances the jobs in    *)
(* progress every two seconds while auto-refresh is on, and the buttons of *)
(* the rows and of the bulk bar.  Of a job the model keeps id, status,     *)
(* progress, attempts and maxAttempts.                                     *)
(***************************************************************************)
statuses == <<"pending", "processing", "completed", "failed", "paused">>

\* Math.floor(Math.random() * 80) + 10 is 10..89, of which the model draws
\* the ends; Math.floor(Math.random() * 3) + 1 is 1..3
SampleProgress == {10, 89}
SampleAttempts == 1..3
\* Math.floor(Math.random() * 15) is 0..14, of which the model draws the ends
Increments == {0, 14}
\* the Max Attempts field of the form: 3 unless changed, min 1
FormMaxAttempts == {1, 3}

Min(a, b) == IF a < b THEN a ELSE b

\* job i + 1 of generateSampleJobs, its two random numbers given
SampleJob(i, progress, attempts) ==
    LET status == statuses[(i % Len(statuses)) + 1]
    IN  [id |-> "job-" \o ToString(i + 1),
         status |-> status,
         progress |-> IF status = "completed" THEN 100
                      ELSE IF status = "processing" THEN progress ELSE 0,
         attempts |-> attempts,
         maxAttempts |-> 3]

\* the lists generateSampleJobs may return; the model draws one progress and
\* one number of attempts for all the jobs of a list
generateSampleJobs ==
    {[k \in 1..MaxSampleJobs |-> SampleJob(k - 1, progress, attempts)] :
        progress \in SampleProgress, attempts \in SampleAttempts}

JobIds == {jobs[i].id : i \in 1..Len(jobs)}
AddedId(n) == "job-t" \o ToString(n)
AllJobIds == {"job-" \o ToString(i) : i \in 1..MaxSampleJobs}
                \cup {AddedId(n) : n \in 1..MaxAddedJobs}
JobOf(jobId) == jobs[CHOOSE i \in 1..Len(jobs) : jobs[i].id = jobId]

RECURSIVE FilterJobs(_, _)
\* the jobs of list whose id is not in ids
FilterJobs(list, ids) ==
    IF list = <<>> THEN <<>>
    ELSE IF Head(list).id \in ids THEN FilterJobs(Tail(list), ids)
    ELSE <<Head(list)>> \o FilterJobs(Tail(list), ids)

\* faulty variant of Advance: the progress is not capped
AdvanceUncapped(job, random) ==
    IF job.status = "processing"
    THEN LET newProgress == job.progress + random
         IN  [job EXCEPT !.progress = newProgress,
                         !.status = IF newProgress >= 100 THEN "completed"
                                    ELSE "processing"]
    ELSE job

\* one job in a tick of the interval
Advance(job, random) ==
    IF job.status = "processing"
    THEN LET newProgress == Min(job.progress + random, 100)
         IN  [job EXCEPT !.progress = newProgress,
                         !.status = IF newProgress >= 100 THEN "completed"
                                    ELSE "processing"]
    ELSE job

\* the interval of the auto-refresh effect, set only while isAutoRefresh
autoRefreshTick ==
    /\ isAutoRefresh
    /\ \E random \in [{i \in 1..Len(jobs) : jobs[i].status = "processing"} -> Increments] :
          jobs' = [i \in 1..Len(jobs) |->
                      Advance(jobs[i], IF i \in DOMAIN random THEN random[i] ELSE 0)]
    /\ UNCHANGED <<nonJobVars, isAutoRefresh, jobsAdded>>

toggleAutoRefresh ==
    /\ isAutoRefresh' = ~isAutoRefresh
    /\ UNCHANGED <<nonJobVars, jobs, jobsAdded>>

Retried(job) ==
    [job EXCEPT !.status = "pending", !.progress = 0, !.attempts = job.attempts + 1]

Toggled(job) ==
    [job EXCEPT !.status = IF job.status = "paused" THEN "pending" ELSE "paused"]

\* the Retry button, drawn in the row of a failed job
handleRetry(jobId) ==
    /\ jobId \in JobIds
    /\ JobOf(jobId).status = "failed"
    /\ jobs' = [i \in 1..Len(jobs) |->
                    IF jobs[i].id = jobId THEN Retried(jobs[i]) ELSE jobs[i]]
    /\ UNCHANGED <<nonJobVars, isAutoRefresh, jobsAdded>>

\* the Pause / Resume button, drawn in the row of a pending or paused job
handlePause(jobId) ==
    /\ jobId \in JobIds
    /\ JobOf(jobId).status \in {"pending", "paused"}
    /\ jobs' = [i \in 1..Len(jobs) |->
                    IF jobs[i].id = jobId THEN Toggled(jobs[i]) ELSE jobs[i]]
    /\ UNCHANGED <<nonJobVars, isAutoRefresh, jobsAdded>>

handleDelete(jobId) ==
    /\ jobId \in JobIds
    /\ jobs' = FilterJobs(jobs, {jobId})
    /\ UNCHANGED <<nonJobVars, isAutoRefresh, jobsAdded>>

\* what the checkboxes can set selectedJobs to in one click: the job of a
\* row, or with the checkbox of the header the jobs that pass the filters
\* (here: all jobs, or those of one status)
Selections ==
    {{jobId} : jobId \in JobIds}
        \cup {{jobs[i].id : i \in {k \in 1..Len(jobs) : jobs[k].status = statuses[n]}} :
                n \in 1..Len(statuses)}
        \cup {JobIds}

\* the buttons of the bulk bar; selectedJobs is what the checkboxes were set
\* to since it was last emptied, and is emptied again
BulkApplied(action, selectedJobs) ==
    IF action = "delete"
    THEN FilterJobs(jobs, selectedJobs)
    ELSE IF action = "retry"
    THEN [i \in 1..Len(jobs) |->
            IF jobs[i].id \in selectedJobs /\ jobs[i].status = "failed"
            THEN Retried(jobs[i]) ELSE jobs[i]]
    ELSE [i \in 1..Len(jobs) |->
            IF jobs[i].id \in selectedJobs /\ jobs[i].status \in {"pending", "paused"}
            THEN Toggled(jobs[i]) ELSE jobs[i]]

handleBulkAction(action) ==
    /\ \E selectedJobs \in Selections \ {{}} :
          jobs' = BulkApplied(action, selectedJobs)
    /\ UNCHANGED <<nonJobVars, isAutoRefresh, jobsAdded>>

\* the Add Job form: status pending, the new job in front
handleAddJob(maxAttempts) ==
    /\ jobsAdded < MaxAddedJobs
    /\ jobsAdded' = jobsAdded + 1
    /\ jobs' = <<[id |-> AddedId(jobsAdded'), status |-> "pending", progress |-> 0,
                  attempts |-> 0, maxAttempts |-> maxAttempts]>> \o jobs
    /\ UNCHANGED <<nonJobVars, isAutoRefresh>>

NextJobs ==
    \/ autoRefreshTick
    \/ toggleAutoRefresh
    \/ \E jobId \in AllJobIds : handleRetry(jobId)
    \/ \E jobId \in AllJobIds : handlePause(jobId)
    \/ \E jobId \in AllJobIds : handleDelete(jobId)
    \/ \E action \in {"retry", "pause", "delete"} : handleBulkAction(action)
    \/ \E maxAttempts \in FormMaxAttempts : handleAddJob(maxAttempts)

\* the state after the effect that loads the sample jobs
InitJobs ==
    /\ jobs \in generateSampleJobs
    /\ isAutoRefresh = TRUE
    /\ jobsAdded = 0
    /\ TopoIdle
    /\ FsIdle
    /\ ToastIdle
    /\ ThemeIdle
    /\ TreeIdle
    /\ TabsIdle
    /\ TermIdle

SpecJobs == InitJobs /\ [][NextJobs]_vars

(***************************************************************************)
(* The theme and its undo history.  updateTheme pushes the new theme on    *)
(* the history; the page and asset handlers set the theme alone.           *)
(***************************************************************************)
ThemeNames == {"Default", "Mine"}
NewPage == [id |-> "page-1", html |-> ""]
PageHtml == {"x"}
UploadedAsset == [id |-> "asset-1", name |-> "photo.png"]
AssetNames == {"brand.svg"}

IdsIn(list) == {list[i].id : i \in 1..Len(list)}
RECURSIVE Without(_, _)
\* list.filter(x => x.id !== id)
Without(list, id) ==
    IF list = <<>> THEN <<>>
    ELSE IF Head(list).id = id THEN Without(Tail(list), id)
    ELSE <<Head(list)>> \o Without(Tail(list), id)

\* history.slice(0, historyIndex + 1) with newTheme pushed
Pushed(hist, index, newTheme) == Append(SubSeq(hist, 1, index + 1), newTheme)

updateTheme(updates) ==
    /\ historyIndex + 2 <= MaxHistory
    /\ LET newTheme == [theme EXCEPT !.name = updates.name]
           newHistory == Pushed(history, historyIndex, newTheme)
       IN  /\ history' = newHistory
           /\ historyIndex' = Len(newHistory) - 1
           /\ theme' = newTheme
    /\ UNCHANGED nonThemeVars

\* the editor after undo, as theme, history and historyIndex
Undone(t, hist, index) ==
    IF index > 0
    THEN [theme |-> hist[(index - 1) + 1], history |-> hist, historyIndex |-> index - 1]
    ELSE [theme |-> t, history |-> hist, historyIndex |-> index]

\* the editor after redo
Redone(t, hist, index) ==
    IF index < Len(hist) - 1
    THEN [theme |-> hist[(index + 1) + 1], history |-> hist, historyIndex |-> index + 1]
    ELSE [theme |-> t, history |-> hist, historyIndex |-> index]

undo ==
    /\ historyIndex > 0
    /\ theme' = Undone(theme, history, historyIndex).theme
    /\ historyIndex' = Undone(theme, history, historyIndex).historyIndex
    /\ UNCHANGED <<nonThemeVars, history>>

redo ==
    /\ historyIndex < Len(history) - 1
    /\ theme' = Redone(theme, history, historyIndex).theme
    /\ historyIndex' = Redone(theme, history, historyIndex).historyIndex
    /\ UNCHANGED <<nonThemeVars, history>>

handlePageChange(pageId, updates) ==
    /\ pageId \in IdsIn(theme.pages)
    /\ theme' = [theme EXCEPT !.pages =
                    [i \in 1..Len(theme.pages) |->
                        IF theme.pages[i].id = pageId
                        THEN [theme.pages[i] EXCEPT !.html = updates.html]
                        ELSE theme.pages[i]]]
    /\ UNCHANGED <<nonThemeVars, history, historyIndex>>

handleAddPage(page) ==
    /\ page.id \notin IdsIn(theme.pages)
    /\ theme' = [theme EXCEPT !.pages = Append(theme.pages, page)]
    /\ UNCHANGED <<nonThemeVars, history, historyIndex>>

handleDeletePage(pageId) ==
    /\ pageId \in IdsIn(theme.pages)
    /\ theme' = [theme EXCEPT !.pages = Without(theme.pages, pageId)]
    /\ UNCHANGED <<nonThemeVars, history, historyIndex>>

handleAssetUpload(newAsset) ==
    /\ newAsset.id \notin IdsIn(theme.assets)
    /\ theme' = [theme EXCEPT !.assets = Append(theme.assets, newAsset)]
    /\ UNCHANGED <<nonThemeVars, history, historyIndex>>

\* the user confirms
handleAssetDelete(assetId) ==
    /\ assetId \in IdsIn(theme.assets)
    /\ theme' = [theme EXCEPT !.assets = Without(theme.assets, assetId)]
    /\ UNCHANGED <<nonThemeVars, history, historyIndex>>

\* handleAssetRename; handleAssetReplace does the same with the name of the file
handleAssetRename(assetId, newName) ==
    /\ assetId \in IdsIn(theme.assets)
    /\ theme' = [theme EXCEPT !.assets =
                    [i \in 1..Len(theme.assets) |->
                        IF theme.assets[i].id = assetId
                        THEN [theme.assets[i] EXCEPT !.name = newName]
                        ELSE theme.assets[i]]]
    /\ UNCHANGED <<nonThemeVars, history, historyIndex>>

\* the Reset Theme button, the user confirming
resetTheme ==
    /\ theme' = defaultTheme
    /\ history' = <<defaultTheme>>
    /\ historyIndex' = 0
    /\ UNCHANGED nonThemeVars

NextTheme ==
    \/ \E name \in ThemeNames : updateTheme([name |-> name])
    \/ undo
    \/ redo
    \/ \E html \in PageHtml : handlePageChange("home", [html |-> html])
    \/ handleAddPage(NewPage)
    \/ handleDeletePage("page-1")
    \/ handleAssetUpload(UploadedAsset)
    \/ handleAssetDelete("asset-1")
    \/ \E newName \in AssetNames : handleAssetRename("logo-1", newName)
    \/ resetTheme

InitTheme ==
    /\ ThemeIdle
    /\ TopoIdle
    /\ FsIdle
    /\ ToastIdle
    /\ JobsIdle
    /\ TreeIdle
    /\ TabsIdle
    /\ TermIdle

SpecTheme == InitTheme /\ [][NextTheme]_vars

(***************************************************************************)
(* The file tree.  Its effect runs on mount and whenever rootPath changes: *)
(* it sets loading, awaits listDirectory(rootPath), stores the tree and    *)
(* clears loading.  Calls still awaited complete in any order.             *)
(***************************************************************************)
\* what listDirectory(path) may resolve to: the listing of the backend or, if
\* the fetch fails in any way, the mock tree
Listings(path) ==
    {IF fetched = "ok" /\ body # BadJson THEN body ELSE getMockFileTree(path) :
        fetched \in FetchOutcomes, body \in ServerListings(path)}

\* loadFileTree up to its await
loadFileTree(path) ==
    /\ loadsStarted < MaxLoads
    /\ loadsStarted' = loadsStarted + 1
    /\ loading' = TRUE
    /\ pendingLoads' = pendingLoads \cup {[call |-> loadsStarted', path |-> path]}

\* the parent hands another rootPath: the effect runs again
changeRootPath ==
    \E path \in FsRoots \ {rootPath} :
        /\ rootPath' = path
        /\ loadFileTree(path)
        /\ UNCHANGED <<nonTreeVars, fileTree>>

\* an awaited listDirectory resolves: loadFileTree after its await
loadResolves ==
    \E load \in pendingLoads : \E tree \in Listings(load.path) :
        /\ pendingLoads' = pendingLoads \ {load}
        /\ fileTree' = tree
        /\ loading' = FALSE
        /\ UNCHANGED <<nonTreeVars, rootPath, loadsStarted>>

NextTree ==
    \/ changeRootPath
    \/ loadResolves

\* the component mounted with some rootPath, its effect run once
InitTree ==
    /\ rootPath \in FsRoots
    /\ fileTree = EmptyTree
    /\ loading = TRUE
    /\ loadsStarted = 1
    /\ pendingLoads = {[call |-> 1, path |-> rootPath]}
    /\ TopoIdle
    /\ FsIdle
    /\ ToastIdle
    /\ JobsIdle
    /\ ThemeIdle
    /\ TabsIdle
    /\ TermIdle

SpecTree == InitTree /\ [][NextTree]_vars

(***************************************************************************)
(* The editor tabs.  The open files are a prop; a drop hands the parent    *)
(* the reordered list through onReorderFiles.  Of a file the model keeps   *)
(* path and isPinned.                                                      *)
(***************************************************************************)
TabPaths == {"a.rs", "b.rs", "c.rs"}

PinnedFirst(list) ==
    \A i \in 1..Len(list), j \in 1..Len(list) :
        (i < j /\ list[j].isPinned) => list[i].isPinned

\* the lists the parent hands as files: distinct paths, the pinned tabs first
FileLists ==
    {list \in UNION {[1..n -> [path : TabPaths, isPinned : BOOLEAN]] : n \in 0..Cardinality(TabPaths)} :
        /\ \A i \in 1..Len(list), j \in 1..Len(list) : i # j => list[i].path # list[j].path
        /\ PinnedFirst(list)}

\* files.findIndex(f => f.path === path), counted from 0; -1 if there is none
FindIndex(list, path) ==
    IF \E i \in 1..Len(list) : list[i].path = path
    THEN (CHOOSE i \in 1..Len(list) :
            list[i].path = path /\ \A k \in 1..(i - 1) : list[k].path # path) - 1
    ELSE -1

\* list.splice(index, 1) and list.splice(index, 0, item), index counted from 0
SpliceOut(list, index) ==
    SubSeq(list, 1, index) \o SubSeq(list, index + 2, Len(list))
SpliceIn(list, index, item) ==
    LET at == IF index > Len(list) THEN Len(list) ELSE index
    IN  SubSeq(list, 1, at) \o <<item>> \o SubSeq(list, at + 1, Len(list))

\* the parent hands another list of files
parentSetsFiles ==
    \E list \in FileLists :
        /\ list # files
        /\ files' = list
        /\ UNCHANGED <<nonTabVars, draggedTab, dragOverTab, lastReorder, reorderCount>>

handleDragStart(path) ==
    /\ FindIndex(files, path) >= 0
    /\ draggedTab' = path
    /\ UNCHANGED <<nonTabVars, files, dragOverTab, lastReorder, reorderCount>>

handleDragOver(path) ==
    /\ FindIndex(files, path) >= 0
    /\ IF draggedTab # NullItem /\ draggedTab # path
       THEN dragOverTab' = path
       ELSE UNCHANGED dragOverTab
    /\ UNCHANGED <<nonTabVars, files, draggedTab, lastReorder, reorderCount>>

handleDragLeave ==
    /\ dragOverTab' = NullItem
    /\ UNCHANGED <<nonTabVars, files, draggedTab, lastReorder, reorderCount>>

\* the three early returns of handleDrop
DropIsRefused(targetPath) ==
    \/ draggedTab = NullItem \/ draggedTab = targetPath
    \/ FindIndex(files, draggedTab) < 0 \/ FindIndex(files, targetPath) < 0
    \/ /\ files[FindIndex(files, targetPath) + 1].isPinned
       /\ ~files[FindIndex(files, draggedTab) + 1].isPinned

\* the list handleDrop hands to onReorderFiles
Reordered(list, dragged, targetPath) ==
    LET draggedIndex == FindIndex(list, dragged)
        targetIndex == FindIndex(list, targetPath)
    IN  SpliceIn(SpliceOut(list, draggedIndex), targetIndex, list[draggedIndex + 1])

\* onReorderFiles is always given here
handleDrop(targetPath) ==
    /\ FindIndex(files, targetPath) >= 0
    /\ IF DropIsRefused(targetPath)
       THEN UNCHANGED <<lastReorder, reorderCount>>
       ELSE /\ reorderCount < MaxReorders
            /\ lastReorder' = [called |-> TRUE,
                                files |-> Reordered(files, draggedTab, targetPath)]
            /\ reorderCount' = reorderCount + 1
    /\ draggedTab' = NullItem
    /\ dragOverTab' = NullItem
    /\ UNCHANGED <<nonTabVars, files>>

handleDragEnd ==
    /\ draggedTab' = NullItem
    /\ dragOverTab' = NullItem
    /\ UNCHANGED <<nonTabVars, files, lastReorder, reorderCount>>

NextTabs ==
    \/ parentSetsFiles
    \/ \E path \in TabPaths : handleDragStart(path)
    \/ \E path \in TabPaths : handleDragOver(path)
    \/ handleDragLeave
    \/ \E targetPath \in TabPaths : handleDrop(targetPath)
    \/ handleDragEnd

InitTabs ==
    /\ files \in FileLists
    /\ draggedTab = NullItem
    /\ dragOverTab = NullItem
    /\ lastReorder = NoReorder
    /\ reorderCount = 0
    /\ TopoIdle
    /\ FsIdle
    /\ ToastIdle
    /\ JobsIdle
    /\ ThemeIdle
    /\ TreeIdle
    /\ TermIdle

SpecTabs == InitTabs /\ [][NextTabs]_vars

(***************************************************************************)
(* The terminal's sessions.  Of a session the model keeps the id.          *)
(***************************************************************************)
SessionIds == {"1"} \cup {"t" \o ToString(n) : n \in 1..MaxSessions}
OpenSessionIds == {sessions[i].id : i \in 1..Len(sessions)}

RECURSIVE WithoutSession(_, _)
\* list.filter(s => s.id !== id)
WithoutSession(list, id) ==
    IF list = <<>> THEN <<>>
    ELSE IF Head(list).id = id THEN WithoutSession(Tail(list), id)
    ELSE <<Head(list)>> \o WithoutSession(Tail(list), id)

addSession ==
    /\ sessionsAdded < MaxSessions
    /\ sessionsAdded' = sessionsAdded + 1
    /\ LET newId == "t" \o ToString(sessionsAdded')
       IN  /\ sessions' = Append(sessions, [id |-> newId])
           /\ activeSession' = newId
    /\ UNCHANGED nonTermVars

\* a click on the tab of a session
selectSession(id) ==
    /\ id \in OpenSessionIds
    /\ activeSession' = id
    /\ UNCHANGED <<nonTermVars, sessions, sessionsAdded>>

\* faulty variant of ActiveAfterClose: always the first session
ActiveAfterCloseFirst(list, active, id) ==
    IF active = id THEN list[1].id ELSE active

\* activeSession after closeSession(id) with more than one session
ActiveAfterClose(list, active, id) ==
    IF active = id
    THEN IF list[1].id = id THEN list[2].id ELSE list[1].id
    ELSE active

\* the close button of a session
closeSession(id) ==
    /\ id \in OpenSessionIds
    /\ IF Len(sessions) = 1
       THEN UNCHANGED <<sessions, activeSession>>
       ELSE /\ sessions' = WithoutSession(sessions, id)
            /\ activeSession' = ActiveAfterClose(sessions, activeSession, id)
    /\ UNCHANGED <<nonTermVars, sessionsAdded>>

NextTerm ==
    \/ addSession
    \/ \E id \in SessionIds : selectSession(id)
    \/ \E id \in SessionIds : closeSession(id)

InitTerm ==
    /\ TermIdle
    /\ TopoIdle
    /\ FsIdle
    /\ ToastIdle
    /\ JobsIdle
    /\ ThemeIdle
    /\ TreeIdle
    /\ TabsIdle

SpecTerm == InitTerm /\ [][NextTerm]_vars

(***************************************************************************)
(* Properties of the resolver, checked under SpecResolver.                 *)
(***************************************************************************)
NodeIds == {nodes[i].id : i \in 1..Len(nodes)}
IdsOfType(t) == {nodes[i].id : i \in {j \in 1..Len(nodes) : nodes[j].type = t}}

\* C1: every edge's source and target are ids of nodes of the same resolve pass
\* (no dangling edge), whatever the store holds and whatever filter is set.
NoDanglingEdge ==
    \A k \in 1..Len(edges) : edges[k].source \in NodeIds /\ edges[k].target \in NodeIds

NoDanglingEdgeWitness ==
    /\ filterType = "all"
    /\ Len(edges) >= 2
    /\ edges[1].source # edges[2].source
    /\ edges[1].target # edges[2].target

\* C2: every edge goes from an exchange node to a queue node.
EdgesGoFromExchangeToQueue ==
    \A k \in 1..Len(edges) :
        /\ edges[k].source \in IdsOfType("exchange")
        /\ edges[k].target \in IdsOfType("queue")

\* C3: with filterType = 'exchange' there are no queue nodes and no edges.
ExchangeFilterYieldsNoEdges ==
    filterType = "exchange" => IdsOfType("queue") = {} /\ edges = <<>>

\* C4: with filterType = 'queue' there are no exchange nodes and no edges.
QueueFilterYieldsNoEdges ==
    filterType = "queue" => IdsOfType("exchange") = {} /\ edges = <<>>

NoNodeIsCalled(str) == \A i \in 1..Len(nodes) : nodes[i].id # str /\ nodes[i].name # str
Unresolved(b) == NoNodeIsCalled(b.source) \/ NoNodeIsCalled(b.destination)
RemoveAt(s, k) == SubSeq(s, 1, k - 1) \o SubSeq(s, k + 1, Len(s))

\* C5: a binding whose source or destination matches no node by id or name
\* produces no edge, and nodes and the other bindings' edges are what the
\* resolver gives without that binding.
UnresolvedBindingIsDropped ==
    \A k \in 1..Len(bindings) :
        Unresolved(bindings[k]) =>
            /\ \A m \in 1..Len(edges) : edges[m].id # bindings[k].id
            /\ nodes = Resolve(exchanges, queues, RemoveAt(bindings, k), filterType).nodes
            /\ edges = Resolve(exchanges, queues, RemoveAt(bindings, k), filterType).edges

\* the queue a binding names is hidden by the filter, another binding names nothing
UnresolvedBindingIsDroppedWitness ==
    /\ filterType = "exchange"
    /\ Len(bindings) = 2
    /\ \E j \in 1..Len(queues) : queues[j].name = bindings[1].destination
    /\ Unresolved(bindings[1])
    /\ Unresolved(bindings[2])
    /\ \E i \in 1..Len(nodes) : nodes[i].name = bindings[1].source
    /\ edges = <<>>

ExchangesCalled(str) == {i \in 1..Len(exchanges) : exchanges[i].id = str \/ exchanges[i].name = str}
QueuesCalled(str)    == {j \in 1..Len(queues) : queues[j].id = str \/ queues[j].name = str}
ResolvesBoth(b)      == ~Unresolved(b)
EdgeIds              == [m \in 1..Len(edges) |-> edges[m].id]
BindingIdsOf(bs)     == [k \in 1..Len(bs) |-> bs[k].id]

\* C6: under filterType = 'all', a binding that names exactly one exchange and
\* no queue as source, and exactly one queue and no exchange as destination,
\* yields exactly one edge, from that exchange's id to that queue's id with the
\* binding's id and routing key; and the edges are one per binding that
\* resolves both endpoints, in binding order.
UniqueBindingYieldsItsEdge ==
    filterType = "all" =>
        /\ \A k \in 1..Len(bindings) :
             LET b == bindings[k] IN
             \A i \in 1..Len(exchanges), j \in 1..Len(queues) :
                 ( /\ ExchangesCalled(b.source) = {i}
                   /\ QueuesCalled(b.source) = {}
                   /\ QueuesCalled(b.destination) = {j}
                   /\ ExchangesCalled(b.destination) = {} )
                 => /\ Cardinality({m \in 1..Len(edges) : edges[m].id = b.id}) = 1
                    /\ \A m \in 1..Len(edges) :
                         edges[m].id = b.id =>
                             edges[m] = [id |-> b.id, source |-> exchanges[i].id,
                                         target |-> queues[j].id,
                                         routingKey |-> b.routingKey]
        /\ EdgeIds = BindingIdsOf(SelectSeq(bindings, ResolvesBoth))

UniqueBindingYieldsItsEdgeWitness ==
    /\ filterType = "all"
    /\ Len(bindings) = 2
    /\ Len(edges) = 2
    /\ \A k \in 1..2 :
         /\ Cardinality(ExchangesCalled(bindings[k].source)) = 1
         /\ QueuesCalled(bindings[k].source) = {}
         /\ Cardinality(QueuesCalled(bindings[k].destination)) = 1
         /\ ExchangesCalled(bindings[k].destination) = {}
    /\ edges[1].routingKey # edges[2].routingKey

ExchangesShown == IF filterType = "queue" THEN 0 ELSE Len(exchanges)

\* C7: the exchange at 0-based index i sits at (200, 120 + 140 i) and the queue
\* at index j at (650, 100 + 110 j); the position depends on that index only,
\* so every node shown under a filter is the node shown under 'all', and the
\* bindings move nothing.
NodePositionsFollowIndex ==
    /\ \A i \in 1..Len(exchanges) :
         filterType # "queue" =>
             /\ nodes[i].id = exchanges[i].id /\ nodes[i].type = "exchange"
             /\ nodes[i].x = 200 /\ nodes[i].y = 120 + 140 * (i - 1)
    /\ \A j \in 1..Len(queues) :
         filterType # "exchange" =>
             LET n == nodes[ExchangesShown + j] IN
             /\ n.id = queues[j].id /\ n.type = "queue"
             /\ n.x = 650 /\ n.y = 100 + 110 * (j - 1)
    /\ LET all == Resolve(exchanges, queues, <<>>, "all").nodes IN
       \A i \in 1..Len(nodes) : \E a \in 1..Len(all) : nodes[i] = all[a]

NodePositionsFollowIndexWitness ==
    /\ filterType = "queue"
    /\ Len(exchanges) = 2
    /\ Len(queues) = 2
    /\ Len(bindings) > 0
    /\ nodes[2].y = 210

(***************************************************************************)
(* Properties of the view state, checked under Spec.                       *)
(***************************************************************************)
\* C8: 0.5 <= zoom <= 2.0 in every state reachable through the handlers.
ZoomStaysInRange == ~DLess(zoom, DHalf) /\ ~DLess(DTwo, zoom)

ZoomStaysInRangeWitness ==
    /\ zoom = DTwo
    /\ isDragging
    /\ pan # [x |-> 0, y |-> 0]
    /\ selectedNode # Null
    /\ ~showLabels
    /\ filterType # "all"

RECURSIVE ZoomInTimes(_, _)
ZoomInTimes(z, n) == IF n = 0 THEN z ELSE ZoomInTimes(ZoomInFn(z), n - 1)

RECURSIVE ZoomOutTimes(_, _)
ZoomOutTimes(z, n) == IF n = 0 THEN z ELSE ZoomOutTimes(ZoomOutFn(z), n - 1)

\* C9: from every reachable zoom, 1.0 included, ten consecutive zoomIn calls
\* end at exactly 2.0, and a zoomIn at 2.0 leaves zoom at 2.0.
TenZoomInsReachTwo ==
    /\ [](ZoomInTimes(zoom, 10) = DTwo)
    /\ [][handleZoomIn /\ zoom = DTwo => zoom' = DTwo]_vars

TenZoomInsReachTwoWitness == zoom = DTwo /\ ~isDragging /\ selectedNode = Null

\* C10: from every reachable zoom, 1.0 included, ten consecutive zoomOut calls
\* end at exactly 0.5, and a zoomOut at 0.5 leaves zoom at 0.5.
TenZoomOutsReachHalf ==
    /\ [](ZoomOutTimes(zoom, 10) = DHalf)
    /\ [][handleZoomOut /\ zoom = DHalf => zoom' = DHalf]_vars

TenZoomOutsReachHalfWitness == zoom = DHalf /\ ~isDragging /\ selectedNode = Null

(***************************************************************************)
(* Properties of the view handlers, checked under Spec.                    *)
(***************************************************************************)
Origin == [x |-> 0, y |-> 0]

\* C11: from any reachable view state (any zoom, any pan, during a drag or
\* not) a resetView step ends with zoom = 1.0 and pan = (0, 0) and leaves
\* selectedNode, showLabels and filterType as they were.
ResetViewRestoresDefaults ==
    [][handleResetView =>
          /\ zoom' = DOne
          /\ pan' = Origin
          /\ UNCHANGED <<selectedNode, showLabels, filterType>>]_vars

\* a reset taken in the middle of a drag that had moved the view: the drag
\* anchor is one no mouse down or move leaves behind together with pan = (0, 0)
ResetViewRestoresDefaultsWitness ==
    /\ zoom = DOne /\ pan = Origin
    /\ isDragging /\ dragStart \notin Pointers
    /\ selectedNode # Null /\ ~showLabels /\ filterType # "all"

(***************************************************************************)
(* Properties of selection and drawing, checked under SpecRender.          *)
(***************************************************************************)
StoreNodeIds ==
    {exchanges[i].id : i \in 1..Len(exchanges)} \cup {queues[j].id : j \in 1..Len(queues)}
NoSharedId ==
    \A i \in 1..Len(exchanges), j \in 1..Len(queues) : exchanges[i].id # queues[j].id
DrawnSelected == {i \in 1..Len(nodes) : RenderedNodes[i].isSelected}
ClickTwice(id) == SelectToggle(SelectToggle(selectedNode, id), id)
ClickToggles ==
    [][selectNode =>
          \E i \in 1..Len(nodes) :
              selectedNode' = IF selectedNode = nodes[i].id THEN Null ELSE nodes[i].id]_vars

\* C12 as stated: a click on node id clears the selection when id is selected
\* and selects id otherwise; two consecutive clicks on the same node always end
\* with nothing selected, whatever was selected before; at most one node is
\* selected in any reachable state.
ClickTwiceAlwaysClears ==
    /\ ClickToggles
    /\ [](\A i \in 1..Len(nodes) : ClickTwice(nodes[i].id) = Null)
    /\ [](Cardinality(DrawnSelected) <= 1)

\* C12 amended: a click on node id clears the selection when id is selected
\* and selects id otherwise; two consecutive clicks on the same node end with
\* nothing selected when that node was not the selected one before them, and
\* with that node selected again when it was; selectedNode is null or one id
\* of the store, and at most one node is drawn selected when no exchange
\* shares its id with a queue.
ClickTwiceRestores ==
    /\ ClickToggles
    /\ [](\A i \in 1..Len(nodes) :
             ClickTwice(nodes[i].id) = IF selectedNode = nodes[i].id THEN nodes[i].id ELSE Null)
    /\ [](selectedNode = Null \/ selectedNode \in StoreNodeIds)
    /\ [](NoSharedId => Cardinality(DrawnSelected) <= 1)

\* one node of two is drawn selected after a click
ClickTwiceRestoresWitness ==
    /\ filterType = "all" /\ Len(nodes) = 2
    /\ Cardinality(DrawnSelected) = 1
    /\ NoSharedId

GlowingEdges == {k \in 1..Len(edges) : RenderedEdges[k].glow}

HiddenLabelsDrawNoCaption ==
    /\ [](~showLabels =>
             /\ \A i \in 1..Len(nodes) : "name" \notin RenderedNodes[i].captions
             /\ \A k \in 1..Len(edges) : "routingKey" \notin RenderedEdges[k].captions)
    /\ [][toggleLabels => UNCHANGED <<nodes, edges>>]_vars

(***************************************************************************)
(* Properties of endpoint resolution, checked under SpecResolver.          *)
(***************************************************************************)
First(S) == CHOOSE i \in S : \A j \in S : i <= j
BindingOf(edge) == bindings[CHOOSE k \in 1..Len(bindings) : bindings[k].id = edge.id]

\* C15: the source of every edge is the first exchange, in exchanges order,
\* whose id or name equals the binding's source, and its target is the first
\* queue, in queues order, whose id or name equals the binding's destination.
FirstDeclaredCandidateWins ==
    \A m \in 1..Len(edges) :
        LET b == BindingOf(edges[m])
        IN  /\ ExchangesCalled(b.source) # {}
            /\ edges[m].source = exchanges[First(ExchangesCalled(b.source))].id
            /\ QueuesCalled(b.destination) # {}
            /\ edges[m].target = queues[First(QueuesCalled(b.destination))].id

NodesCalled(str) == {i \in 1..Len(nodes) : nodes[i].id = str \/ nodes[i].name = str}

\* C16 as stated: a match by id has priority over a match by name: when some
\* node's id equals the binding's source (resp. destination), the edge's
\* endpoint is that node, even when a node declared earlier is named so.
IdMatchHasPriority ==
    \A m \in 1..Len(edges) :
        LET b == BindingOf(edges[m])
        IN  /\ b.source \in NodeIds => edges[m].source = b.source
            /\ b.destination \in NodeIds => edges[m].target = b.destination

\* C16 amended: each node of the node list is tested in declaration order
\* (exchanges, then queues), by id and then by name, and the first node that
\* matches either way is the endpoint: a node declared earlier whose display
\* name equals the binding's source (resp. destination) is the endpoint even
\* when a later node's id equals that string.
FirstNodeCalledWins ==
    \A m \in 1..Len(edges) :
        LET b == BindingOf(edges[m])
        IN  /\ edges[m].source = nodes[First(NodesCalled(b.source))].id
            /\ edges[m].target = nodes[First(NodesCalled(b.destination))].id

\* an edge starts at a node that matches by name only, though a node declared
\* later has the binding's source as its id
FirstNodeCalledWinsWitness ==
    \E m \in 1..Len(edges) : \E i, j \in 1..Len(nodes) :
        /\ filterType = "exchange"
        /\ i < j
        /\ nodes[i].name = BindingOf(edges[m]).source /\ nodes[i].id # BindingOf(edges[m]).source
        /\ nodes[j].id = BindingOf(edges[m]).source
        /\ nodes[i].type = "exchange" /\ nodes[j].type = "exchange"
        /\ edges[m].source = nodes[i].id

(***************************************************************************)
(* Properties of dragging and of the view handlers' frame, under Spec.     *)
(***************************************************************************)
\* C17: after a mouse down at pointer p0 with pan = a, every mouse move to p
\* before the mouse goes up sets pan = a + (p - p0), whatever moves came in
\* between; a second move to the same p changes nothing more; and a move while
\* no drag is on leaves pan unchanged.
PanFollowsPointer ==
    /\ [][\A e \in Pointers :
            handleMouseMoveAt(e) /\ isDragging =>
                pan' = [x |-> dragOrigin.pan.x + (e.x - dragOrigin.pointer.x),
                        y |-> dragOrigin.pan.y + (e.y - dragOrigin.pointer.y)]]_vars
    /\ [](\A e \in Pointers :
             PanOnMove(isDragging, dragStart, PanOnMove(isDragging, dragStart, pan, e), e)
                 = PanOnMove(isDragging, dragStart, pan, e))
    /\ [][handleMouseMove /\ ~isDragging => pan' = pan]_vars

\* a drag that began with the view already panned has moved the view
PanFollowsPointerWitness ==
    /\ isDragging
    /\ dragOrigin.pan # Origin
    /\ pan # dragOrigin.pan
    /\ zoom # DOne

ViewStep ==
    \/ handleZoomIn \/ handleZoomOut \/ handleResetView
    \/ handleMouseDown \/ handleMouseMove \/ handleMouseUp
    \/ selectNode \/ toggleLabels

\* C18: the node list and the edge list are what the resolve pass gives for
\* the current exchanges, queues, bindings and filterType, whatever the rest
\* of the view state is; and zoom in, zoom out, reset, mouse down, move and up,
\* a node click and the labels toggle change neither nodes, edges nor the
\* store's collections.
GraphDependsOnStoreAndFilter ==
    /\ [](/\ nodes = Resolve(exchanges, queues, bindings, filterType).nodes
          /\ edges = Resolve(exchanges, queues, bindings, filterType).edges)
    /\ [][ViewStep => UNCHANGED <<exchanges, queues, bindings, nodes, edges>>]_vars

\* every part of the view state has been changed since the last resolve pass
GraphDependsOnStoreAndFilterWitness ==
    /\ Len(edges) = 1
    /\ zoom # DOne /\ pan # Origin /\ selectedNode # Null /\ ~showLabels
    /\ ~isDragging /\ dragStart # Origin

(***************************************************************************)
(* Properties of the drawing, checked under SpecRender and SpecHealth.     *)
(***************************************************************************)
Highlighted(drawn) == drawn.glow /\ drawn.strokeWidth = 3 /\ drawn.strokeDasharray = ""
Plain(drawn)       == ~drawn.glow /\ drawn.strokeWidth = 2 /\ drawn.strokeDasharray = "5,5"

\* C19: an edge is drawn highlighted (solid stroke of width 3 over a glow)
\* exactly when selectedNode equals its source or its target, and dashed with
\* width 2 and no glow otherwise; with nothing selected no edge is highlighted.
EdgeHighlightFollowsSelection ==
    /\ \A k \in 1..Len(edges) :
          IF selectedNode = edges[k].source \/ selectedNode = edges[k].target
          THEN Highlighted(RenderedEdges[k])
          ELSE Plain(RenderedEdges[k])
    /\ selectedNode = Null => \A k \in 1..Len(edges) : ~Highlighted(RenderedEdges[k])

\* the queue an edge ends at is selected, its exchange is not: the edge is
\* highlighted through its target
EdgeHighlightFollowsSelectionWitness ==
    /\ filterType = "all" /\ Len(edges) = 1
    /\ selectedNode = edges[1].target /\ selectedNode # edges[1].source
    /\ Highlighted(RenderedEdges[1])
    /\ ~showLabels

DrawnQueues == {i \in 1..Len(nodes) : nodes[i].type = "queue"}
Healthy(drawn)  == drawn.healthBar = "fill-green-500"
Degraded(drawn) == drawn.healthBar = "fill-yellow-500"
Critical(drawn) == drawn.healthBar = "fill-red-500"

\* C20: for every health score in 0..100 the health bar of the queue node is
\* healthy (green) exactly when the score is at least 80, degraded (yellow)
\* exactly when it is at least 50 and below 80, and critical (red) exactly
\* when it is below 50; exactly one of the three applies.
HealthBarFollowsThresholds ==
    \A i \in DrawnQueues :
        LET h == nodes[i].data.healthScore
            drawn == RenderedNodes[i]
        IN  /\ h \in 0..100
            /\ Healthy(drawn) <=> h >= 80
            /\ Degraded(drawn) <=> (50 <= h /\ h < 80)
            /\ Critical(drawn) <=> h < 50
            /\ Cardinality({c \in {"healthy", "degraded", "critical"} :
                              \/ c = "healthy" /\ Healthy(drawn)
                              \/ c = "degraded" /\ Degraded(drawn)
                              \/ c = "critical" /\ Critical(drawn)}) = 1

\* a queue at the lower threshold is drawn degraded, selected and with the
\* exchanges filtered out
HealthBarFollowsThresholdsWitness ==
    /\ filterType = "queue" /\ DrawnQueues # {}
    /\ \A i \in DrawnQueues :
          /\ nodes[i].data.healthScore = 50
          /\ Degraded(RenderedNodes[i])
          /\ RenderedNodes[i].isSelected

\* the nodes the resolve pass took for the two ends of an edge
SourceNodeOf(edge) == nodes[FindSource(nodes, BindingOf(edge))]
TargetNodeOf(edge) == nodes[FindTarget(nodes, BindingOf(edge))]

\* C21: the curve of every edge starts at (source.x + 70, source.y), ends at
\* (target.x - 75, target.y) and has both control points at the x half way
\* between, the first at source.y and the second at target.y, source and
\* target being the positions of the nodes the edge joins; the (0, 0) fallback
\* of getNodePosition is not used for an edge.
EdgeCurveJoinsItsNodes ==
    \A k \in 1..Len(edges) :
        LET source == SourceNodeOf(edges[k])
            target == TargetNodeOf(edges[k])
            midX == Half((source.x + 70) + (target.x - 75))
        IN  /\ edges[k].source \in NodeIds /\ edges[k].target \in NodeIds
            /\ RenderedEdges[k].path.from = [x |-> source.x + 70, y |-> source.y]
            /\ RenderedEdges[k].path.control1 = [x |-> midX, y |-> source.y]
            /\ RenderedEdges[k].path.control2 = [x |-> midX, y |-> target.y]
            /\ RenderedEdges[k].path.to = [x |-> target.x - 75, y |-> target.y]

(***************************************************************************)
(* Properties of the file system service, checked under SpecFiles.         *)
(***************************************************************************)
\* C22: as long as every fetch has failed, writeFile resolves to true and a
\* readFile resolves to a FileContent with the content last written to its
\* path, whatever the path and the content, the empty string included.
OfflineWriteIsReadBack ==
    ~fetchAnswered =>
        /\ fsCall.fn = "writeFile" => fsCall.settled = "resolved" /\ fsCall.value = TRUE
        /\ fsCall.fn = "readFile" /\ fsWritten[fsCall.path] # NullItem =>
              /\ fsCall.settled = "resolved"
              /\ fsCall.value.content = fsWritten[fsCall.path]

Mutating == {"writeFile", "createFile", "deleteFile", "renameFile"}

ShownToasts == DOMAIN toastTimers

\* C24: at most three toasts are shown, those of the first three
\* notifications of the list; every notification that is not persistent and
\* stays among those three is in the end dismissed by its timer (onDismiss
\* called with its id), also when the container renders again in the
\* meantime; and no timer dismisses a persistent notification.
ToastsAreDismissedInTime ==
    /\ [](/\ Cardinality(ShownToasts) <= 3
          /\ ShownToasts = {notifications[i].id : i \in 1..Len(notifications) \cap 1..3})
    /\ \A id \in NotificationIds \ PersistentIds :
          (id \in ShownToasts) ~> (id \in dismissCalls \/ id \notin ShownToasts)
    /\ [](dismissCalls \cap PersistentIds = {})

(***************************************************************************)
(* Properties of the queue manager, checked under SpecJobs.                *)
(***************************************************************************)
JobIsConsistent(job) ==
    /\ 0 <= job.progress /\ job.progress <= 100
    /\ job.status = "completed" => job.progress = 100
    /\ job.status = "processing" => job.progress < 100
    /\ job.status \in {"pending", "failed", "paused"} => job.progress = 0

\* C25: every job has a progress from 0 to 100, which is 100 if the job is
\* completed, below 100 if it is processing and 0 if it is pending, failed or
\* paused; and a tick of the auto-refresh happens only while auto-refresh is
\* on and changes no job that is not processing.
JobsStayConsistent ==
    /\ [](\A i \in 1..Len(jobs) : JobIsConsistent(jobs[i]))
    /\ [][autoRefreshTick =>
            /\ isAutoRefresh
            /\ Len(jobs') = Len(jobs)
            /\ \A i \in 1..Len(jobs) :
                  jobs[i].status # "processing" => jobs'[i] = jobs[i]]_vars

\* a job went from 89 to completed, another was retried and then paused
JobsStayConsistentWitness ==
    /\ \E i \in 1..Len(jobs) : jobs[i].id = "job-2" /\ jobs[i].status = "completed"
    /\ \E i \in 1..Len(jobs) : jobs[i].id = "job-4" /\ jobs[i].status = "paused"
    /\ ~isAutoRefresh

\* C26: the attempts of a job never exceed its maxAttempts.
AttemptsWithinMax ==
    \A i \in 1..Len(jobs) : jobs[i].attempts <= jobs[i].maxAttempts

(***************************************************************************)
(* Properties of the theme history, checked under SpecTheme.               *)
(***************************************************************************)
AfterUndoRedo ==
    LET u == Undone(theme, history, historyIndex)
    IN  Redone(u.theme, u.history, u.historyIndex)

\* C27: when undo is enabled, undo and then redo leave the theme and
\* historyIndex as they were; and historyIndex is an index of history.
UndoRedoRestores ==
    /\ historyIndex > 0 =>
          /\ AfterUndoRedo.theme = theme
          /\ AfterUndoRedo.historyIndex = historyIndex
    /\ 0 <= historyIndex /\ historyIndex < Len(history)

(***************************************************************************)
(* Properties of the file tree, checked under SpecTree.                    *)
(***************************************************************************)
\* C28: once no listDirectory call is awaited any more, the tree shown is a
\* listing of the latest rootPath, in whatever order the calls completed; and
\* loading is true as long as the call for the latest rootPath is awaited.
TreeFollowsLatestRootPath ==
    /\ pendingLoads = {} => fileTree \in Listings(rootPath)
    /\ (\E load \in pendingLoads : load.call = loadsStarted) => loading

(***************************************************************************)
(* Properties of the editor tabs, checked under SpecTabs.                  *)
(***************************************************************************)
\* C29: the list a drop hands to onReorderFiles has the pinned tabs first;
\* and a drop of an unpinned tab on a pinned one, of a tab on itself, or with
\* a path that is not among the files does not call onReorderFiles.
DropKeepsPinnedFirst ==
    /\ [](lastReorder.called => PinnedFirst(lastReorder.files))
    /\ [][\A targetPath \in TabPaths :
            (handleDrop(targetPath) /\ DropIsRefused(targetPath))
                => reorderCount' = reorderCount]_vars

(***************************************************************************)
(* Properties of the terminal, checked under SpecTerm.                     *)
(***************************************************************************)
\* C30: there is always a session, and activeSession is the id of one of the
\* sessions; closing the only session changes nothing, and closing a session
\* that is not the active one leaves activeSession as it is.
ActiveSessionIsOpen ==
    /\ [](Len(sessions) >= 1 /\ activeSession \in OpenSessionIds)
    /\ [][\A id \in SessionIds : closeSession(id) =>
            /\ Len(sessions) = 1 => UNCHANGED termVars
            /\ id # activeSession => activeSession' = activeSession]_vars

\* the first session was closed while active, another while not
ActiveSessionIsOpenWitness ==
    /\ "1" \notin OpenSessionIds
    /\ Len(sessions) = 1
    /\ sessionsAdded >= 2
====
